---- MODULE Spec2Model ----
(***************************************************************************)
(* State-machine model of the zustand slice patterns of react-patterns:    *)
(* the list slice with its mutable (add/remove tracking) and reorderable   *)
(* extensions, the data slice with its mutable, restorable and refreshable *)
(* extensions, the composition of slice objects into one store, and the    *)
(* user/bookmark store of the examples with its React context.             *)
(*                                                                         *)
(* `store` is the state object of one zustand store (a record of the       *)
(* merged slices' state fields).  Every slice action is `set(produce(r))`  *)
(* for a recipe r; a recipe is modelled as an operator from the draft to   *)
(* the next state, and an action of the model is one whole call of a       *)
(* slice action.  refresh makes two set() calls, so it takes two steps     *)
(* and `pc` records that its second half is pending.                       *)
(*                                                                         *)
(* `last` is a history variable: the most recent call, its arguments, the  *)
(* state it started from and the snapshots it delivered to subscribers.    *)
(***************************************************************************)
EXTENDS Integers, Sequences, FiniteSets, TLC

VARIABLES store, pc, last

vars == <<store, pc, last>>

(***************************************************************************)
(* Bounds of the model.                                                    *)
(***************************************************************************)
\* identifiers are 1..MaxId
MaxId == 3
\* list items are 1..MaxItem
MaxItem == 2
\* a data object has two fields, each in 0..MaxField
MaxField == 1
\* an order sequence has at most MaxOrderLen identifiers
MaxOrderLen == 3
\* identifiers of the stores composed of several list slices are 1..MaxShared
MaxShared == 2
\* at most MaxSlices slice objects are spread into one store object
MaxSlices == 3
\* bookmark ids are 1..MaxBookmarkId, bookmark urls 1..MaxUrl
MaxBookmarkId == 2
MaxUrl == 2
\* orderedBookmarkIds is let grow to MaxOrdered entries
MaxOrdered == 4

Ids == 1..MaxId
Items == 1..MaxItem

(***************************************************************************)
(* JavaScript values.  null and undefined are distinct; a keyed collection *)
(* (Record<TId, TData>) is a function from its keys to items; a TData      *)
(* object of the data slices has two fields.                               *)
(***************************************************************************)
Null == [tag |-> "null"]
Undefined == [tag |-> "undefined"]

Record(f) == [tag |-> "record", entries |-> f]
Keys(d) == DOMAIN d.entries
Collections == {Record(f) : f \in UNION {[K -> Items] : K \in SUBSET Ids}}

Objects == {[tag |-> "object", x |-> a, y |-> b] : a \in 0..MaxField, b \in 0..MaxField}

(***************************************************************************)
(* Array and object primitives used by the recipes.                        *)
(***************************************************************************)
Includes(arr, id) == \E i \in 1..Len(arr) : arr[i] = id
Push(arr, id) == Append(arr, id)
IsNot(id, e) == e # id
Filter(arr, id) == SelectSeq(arr, LAMBDA e : IsNot(id, e))
SetKey(d, id, element) ==
  [d EXCEPT !.entries = [k \in Keys(d) \cup {id} |-> IF k = id THEN element ELSE d.entries[k]]]
DeleteKey(d, id) == [d EXCEPT !.entries = [k \in Keys(d) \ {id} |-> d.entries[k]]]

(***************************************************************************)
(* Mutable list slice: the recipes of add and remove.  The definitions     *)
(* whose names say what they leave out or do differently are faulty        *)
(* variants of the recipe that follows them, used to show that the         *)
(* properties below depend on the recipe.                                  *)
(***************************************************************************)
\* add that forgets to take the id out of deleted
AddRecipeKeepsDeleted(draft, id, element) ==
  LET d1 == [draft EXCEPT !.data = SetKey(@, id, element)]
  IN  IF Includes(d1.added, id) THEN d1 ELSE [d1 EXCEPT !.added = Push(@, id)]

\* add that pushes the id without looking whether it is tracked already
AddRecipePushesAlways(draft, id, element) ==
  [draft EXCEPT !.data = SetKey(@, id, element),
                !.added = Push(@, id),
                !.deleted = Filter(@, id)]

\* add that puts a new id in front of added instead of at its end
AddRecipeUnshifts(draft, id, element) ==
  [draft EXCEPT !.data = SetKey(@, id, element),
                !.added = IF Includes(@, id) THEN @ ELSE <<id>> \o @,
                !.deleted = Filter(@, id)]

\* add that looks in deleted, not in added, before it pushes the id
AddRecipeChecksDeleted(draft, id, element) ==
  LET d1 == [draft EXCEPT !.data = SetKey(@, id, element)]
      d2 == IF Includes(d1.deleted, id) THEN d1 ELSE [d1 EXCEPT !.added = Push(@, id)]
  IN  [d2 EXCEPT !.deleted = Filter(@, id)]

AddRecipe(draft, id, element) ==
  LET d1 == [draft EXCEPT !.data = SetKey(@, id, element)]
      d2 == IF Includes(d1.added, id) THEN d1 ELSE [d1 EXCEPT !.added = Push(@, id)]
  IN  [d2 EXCEPT !.deleted = Filter(@, id)]

\* remove that returns early when the id is not a key of the collection
RemoveRecipeSkipsMissing(draft, id) ==
  IF id \notin Keys(draft.data) THEN draft
  ELSE [draft EXCEPT !.data = DeleteKey(@, id),
                     !.deleted = IF Includes(@, id) THEN @ ELSE Push(@, id),
                     !.added = Filter(@, id)]

\* remove that pushes the id without looking whether it is tracked already
RemoveRecipePushesAlways(draft, id) ==
  [draft EXCEPT !.data = DeleteKey(@, id),
                !.deleted = Push(@, id),
                !.added = Filter(@, id)]

\* remove that takes the id out of the order of a reorderable store as well
RemoveRecipeDropsFromOrder(draft, id) ==
  LET d1 == [draft EXCEPT !.data = DeleteKey(@, id), !.order = Filter(@, id)]
      d2 == IF Includes(d1.deleted, id) THEN d1 ELSE [d1 EXCEPT !.deleted = Push(@, id)]
  IN  [d2 EXCEPT !.added = Filter(@, id)]

\* remove that leaves the id in added
RemoveRecipeKeepsAdded(draft, id) ==
  LET d1 == [draft EXCEPT !.data = DeleteKey(@, id)]
  IN  IF Includes(d1.deleted, id) THEN d1 ELSE [d1 EXCEPT !.deleted = Push(@, id)]

RemoveRecipe(draft, id) ==
  LET d1 == [draft EXCEPT !.data = DeleteKey(@, id)]
      d2 == IF Includes(d1.deleted, id) THEN d1 ELSE [d1 EXCEPT !.deleted = Push(@, id)]
  IN  [d2 EXCEPT !.added = Filter(@, id)]

(***************************************************************************)
(* One call of add or remove: set(produce(recipe)).  The recipes write to  *)
(* and delete from draft.data without looking at it first; when data is    *)
(* null (the list slice's setData takes null) that write or delete is a    *)
(* TypeError, produce throws, set gets no next state and the call raises.  *)
(***************************************************************************)
AddCall(state, id, element) ==
  IF state.data = Null THEN [state |-> state, threw |-> TRUE]
  ELSE [state |-> AddRecipe(state, id, element), threw |-> FALSE]

RemoveCall(state, id) ==
  IF state.data = Null THEN [state |-> state, threw |-> TRUE]
  ELSE [state |-> RemoveRecipe(state, id), threw |-> FALSE]

(***************************************************************************)
(* The store of createListStoreSlice(initialList) merged with              *)
(* createMutableListStoreSlice().  This store has no action that makes     *)
(* data null, so add and remove are their recipes here.  `last.fromEmpty`  *)
(* remembers whether the store was created with an empty collection.       *)
(***************************************************************************)
MutableListStore(initialList) ==
  [data |-> initialList, added |-> <<>>, deleted |-> <<>>]

InitMutableList ==
  /\ store \in {MutableListStore(c) : c \in Collections}
  /\ pc = "idle"
  /\ last = [op |-> "init", fromEmpty |-> Keys(store.data) = {}]

Add(id, element) ==
  /\ pc = "idle"
  /\ store' = AddRecipe(store, id, element)
  /\ last' = [op |-> "add", id |-> id, element |-> element, pre |-> store,
              seen |-> <<AddRecipe(store, id, element)>>,
              fromEmpty |-> last.fromEmpty]
  /\ UNCHANGED pc

Remove(id) ==
  /\ pc = "idle"
  /\ store' = RemoveRecipe(store, id)
  /\ last' = [op |-> "remove", id |-> id, pre |-> store,
              seen |-> <<RemoveRecipe(store, id)>>,
              fromEmpty |-> last.fromEmpty]
  /\ UNCHANGED pc

NextMutableList ==
  \/ \E id \in Ids, element \in Items : Add(id, element)
  \/ \E id \in Ids : Remove(id)

SpecMutableList == InitMutableList /\ [][NextMutableList]_vars

(***************************************************************************)
(* Data slice family.  A store's set(fn) replaces the state by fn(state)   *)
(* and calls the subscribers with the new snapshot, unless fn returned the *)
(* state it was given.                                                     *)
(***************************************************************************)
Notified(state, next) == IF next = state THEN <<>> ELSE <<next>>

\* data ?? null
Coalesce(data) == IF data = Null \/ data = Undefined THEN Null ELSE data

\* an updater assigns one field of the draft object and then returns, or
\* throws after that assignment
Updaters == [field : {"x", "y"}, value : 0..MaxField, throws : BOOLEAN]
ApplyUpdater(updater, d) ==
  IF updater.field = "x" THEN [d EXCEPT !.x = updater.value]
  ELSE [d EXCEPT !.y = updater.value]

\* setData that makes the value the baseline and the fresh value as well
SetDataRecipeMovesBaseline(draft, data) ==
  [draft EXCEPT !.data = data, !.initialData = data, !.freshData = data]

SetDataRecipe(draft, data) == [draft EXCEPT !.data = data]

(***************************************************************************)
(* updateData: what produce(recipe) makes of the state (state), how often  *)
(* the updater was called (calls) and whether the call threw (threw).  The *)
(* updater works on a draft of data; when it throws, produce throws, set   *)
(* gets no next state and the store keeps the state it had.                *)
(***************************************************************************)
\* updateData without the null guard: the updater is called on null and its
\* assignment throws a TypeError
UpdateDataRecipeNoGuard(draft, updater) ==
  IF draft.data = Null \/ draft.data = Undefined
  THEN [state |-> draft, calls |-> 1, threw |-> TRUE]
  ELSE IF updater.throws THEN [state |-> draft, calls |-> 1, threw |-> TRUE]
  ELSE [state |-> [draft EXCEPT !.data = ApplyUpdater(updater, @)],
        calls |-> 1, threw |-> FALSE]

\* updateData that hands the updater the stored object itself, so that every
\* field holding that object changes with it
UpdateDataRecipeInPlace(draft, updater) ==
  IF draft.data = Null \/ draft.data = Undefined
  THEN [state |-> draft, calls |-> 0, threw |-> FALSE]
  ELSE IF updater.throws THEN [state |-> draft, calls |-> 1, threw |-> TRUE]
  ELSE [state |-> [f \in DOMAIN draft |->
                     IF draft[f] = draft.data THEN ApplyUpdater(updater, draft.data)
                     ELSE draft[f]],
        calls |-> 1, threw |-> FALSE]

\* updateData that keeps what the updater wrote before it threw
UpdateDataRecipeKeepsPartial(draft, updater) ==
  IF draft.data = Null \/ draft.data = Undefined
  THEN [state |-> draft, calls |-> 0, threw |-> FALSE]
  ELSE [state |-> [draft EXCEPT !.data = ApplyUpdater(updater, @)],
        calls |-> 1, threw |-> updater.throws]

UpdateDataRecipe(draft, updater) ==
  IF draft.data = Null \/ draft.data = Undefined
  THEN [state |-> draft, calls |-> 0, threw |-> FALSE]
  ELSE IF updater.throws THEN [state |-> draft, calls |-> 1, threw |-> TRUE]
  ELSE [state |-> [draft EXCEPT !.data = ApplyUpdater(updater, @)],
        calls |-> 1, threw |-> FALSE]

\* reset that takes an explicit null for "no argument"
ResetRecipeNullRestores(draft, data) ==
  LET nextInitial == IF data # Undefined /\ data # Null THEN data ELSE draft.initialData
  IN  [draft EXCEPT !.initialData = nextInitial, !.data = nextInitial]

\* reset() that makes the edited value the baseline instead of restoring
ResetRecipeCommits(draft, data) ==
  LET nextInitial == IF data # Undefined THEN data ELSE draft.data
  IN  [draft EXCEPT !.initialData = nextInitial, !.data = nextInitial]

ResetRecipe(draft, data) ==
  LET nextInitial == IF data # Undefined THEN data ELSE draft.initialData
  IN  [draft EXCEPT !.initialData = nextInitial, !.data = nextInitial]

\* refresh whose first update writes data instead of freshData
RefreshRecipeWritesData(draft, data) == [draft EXCEPT !.data = data]

RefreshRecipe(draft, data) == [draft EXCEPT !.freshData = data]

(***************************************************************************)
(* The store of createRefreshableDataStoreSlice(initialData) merged with   *)
(* createMutableDataStoreSlice(initialData): data, initialData, freshData  *)
(* with setData, updateData, reset and refresh.                            *)
(***************************************************************************)
DataStore(initialData) ==
  [data |-> initialData, initialData |-> initialData, freshData |-> initialData]

InitData ==
  /\ store \in {DataStore(d) : d \in Objects \cup {Null}}
  /\ pc = "idle"
  /\ last = [op |-> "init"]

SetData(data) ==
  /\ pc = "idle"
  /\ store' = SetDataRecipe(store, data)
  /\ last' = [op |-> "setData", arg |-> data, pre |-> store,
              seen |-> Notified(store, SetDataRecipe(store, data))]
  /\ UNCHANGED pc

UpdateData(updater) ==
  /\ pc = "idle"
  /\ store' = UpdateDataRecipe(store, updater).state
  /\ last' = [op |-> "updateData", arg |-> updater, pre |-> store,
              calls |-> UpdateDataRecipe(store, updater).calls,
              threw |-> UpdateDataRecipe(store, updater).threw,
              seen |-> Notified(store, UpdateDataRecipe(store, updater).state)]
  /\ UNCHANGED pc

Reset(data) ==
  /\ pc = "idle"
  /\ store' = ResetRecipe(store, data)
  /\ last' = [op |-> "reset", arg |-> data, pre |-> store,
              seen |-> Notified(store, ResetRecipe(store, data))]
  /\ UNCHANGED pc

\* refresh(data), up to and including its own set(); subscribers run inside
\* that set(), before refresh goes on
Refresh(data) ==
  /\ pc = "idle"
  /\ store' = RefreshRecipe(store, data)
  /\ last' = [op |-> "refresh", arg |-> data, pre |-> store,
              seen |-> Notified(store, RefreshRecipe(store, data))]
  /\ pc' = "refresh"

\* the rest of refresh(data): get().reset(data ?? null)
RefreshReset ==
  /\ pc = "refresh"
  /\ store' = ResetRecipe(store, Coalesce(last.arg))
  /\ last' = [last EXCEPT !.seen = @ \o Notified(store, ResetRecipe(store, Coalesce(last.arg)))]
  /\ pc' = "idle"

NextData ==
  \/ \E data \in Objects \cup {Null} : SetData(data)
  \/ \E updater \in Updaters : UpdateData(updater)
  \/ \E data \in Objects \cup {Null, Undefined} : Reset(data)
  \/ \E data \in Objects \cup {Null} : Refresh(data)
  \/ RefreshReset

SpecData == InitData /\ [][NextData]_vars

(***************************************************************************)
(* The store of createListStoreSlice(initialList) alone: data and setData. *)
(***************************************************************************)
\* setData that does nothing when it is given null
ListSetDataRecipeIgnoresNull(draft, data) ==
  IF data = Null THEN draft ELSE [draft EXCEPT !.data = data]

ListSetDataRecipe(draft, data) == [draft EXCEPT !.data = data]

ListStore(initialList) == [data |-> initialList]

InitList ==
  /\ store \in {ListStore(c) : c \in Collections}
  /\ pc = "idle"
  /\ last = [op |-> "init"]

ListSetData(data) ==
  /\ pc = "idle"
  /\ store' = ListSetDataRecipe(store, data)
  /\ last' = [op |-> "setData", arg |-> data, pre |-> store,
              seen |-> Notified(store, ListSetDataRecipe(store, data))]
  /\ UNCHANGED pc

NextList == \E data \in Collections \cup {Null} : ListSetData(data)

(***************************************************************************)
(* Either store: a data store (it has initialData) or a list store.        *)
(***************************************************************************)
IsDataStore(s) == "initialData" \in DOMAIN s

InitSlices == InitData \/ InitList

NextSlices ==
  \/ IsDataStore(store) /\ NextData
  \/ ~IsDataStore(store) /\ NextList

SpecSlices == InitSlices /\ [][NextSlices]_vars

(***************************************************************************)
(* Reorderable list slice.  Array indices are JavaScript's (from 0); the   *)
(* sequences of the model are indexed from 1.                              *)
(***************************************************************************)
Orders == UNION {[1..n -> Ids] : n \in 0..MaxOrderLen}
\* target indices passed to move: in range, negative and past the end
TargetIndices == (0 - 2)..(MaxOrderLen + 1)

MaxOf(a, b) == IF a >= b THEN a ELSE b
MinOf(a, b) == IF a <= b THEN a ELSE b
clamp(n, min, max) == MaxOf(min, MinOf(max, n))

\* arr.indexOf(id): the first index of id, -1 when absent
JsIndexOf(arr, id) ==
  IF Includes(arr, id)
  THEN (CHOOSE i \in 1..Len(arr) : arr[i] = id /\ \A j \in 1..(i - 1) : arr[j] # id) - 1
  ELSE 0 - 1

\* the start index splice works with: negative counts from the end, and the
\* result is kept within 0..length
SpliceStart(arr, start) ==
  IF start < 0 THEN MaxOf(Len(arr) + start, 0) ELSE MinOf(start, Len(arr))

\* the array after arr.splice(start, 1)
SpliceOut(arr, start) ==
  LET s == SpliceStart(arr, start)
  IN  SubSeq(arr, 1, s) \o SubSeq(arr, s + 2, Len(arr))

\* the array after arr.splice(start, 0, item)
SpliceIn(arr, start, item) ==
  LET s == SpliceStart(arr, start)
  IN  SubSeq(arr, 1, s) \o <<item>> \o SubSeq(arr, s + 1, Len(arr))

Unshift(arr, item) == <<item>> \o arr

SetOrderRecipe(draft, order) == [draft EXCEPT !.order = order]

\* move without the clamp: the index goes to splice as given
MoveRecipeNoClamp(draft, id, newIndex) ==
  LET currentIndex == JsIndexOf(draft.order, id)
  IN  IF currentIndex = 0 - 1 THEN draft
      ELSE [draft EXCEPT !.order = SpliceIn(SpliceOut(@, currentIndex), newIndex, id)]

\* move that exchanges the two positions instead of relocating one element
MoveRecipeSwaps(draft, id, newIndex) ==
  LET currentIndex == JsIndexOf(draft.order, id)
      bounded == clamp(newIndex, 0, Len(draft.order) - 1)
  IN  IF currentIndex = 0 - 1 THEN draft
      ELSE [draft EXCEPT !.order =
              [@ EXCEPT ![currentIndex + 1] = draft.order[bounded + 1],
                        ![bounded + 1] = id]]

MoveRecipe(draft, id, newIndex) ==
  LET currentIndex == JsIndexOf(draft.order, id)
      bounded == clamp(newIndex, 0, Len(draft.order) - 1)
  IN  IF currentIndex = 0 - 1 THEN draft
      ELSE [draft EXCEPT !.order = SpliceIn(SpliceOut(@, currentIndex), bounded, id)]

\* moveToTop that puts an id that is not in the order at the top as well
MoveToTopRecipeInsertsAbsent(draft, id) ==
  LET idx == JsIndexOf(draft.order, id)
  IN  IF idx = 0 THEN draft
      ELSE [draft EXCEPT !.order = Unshift(Filter(@, id), id)]

\* moveToTop that pushes the element to the end, as moveToBottom does
MoveToTopRecipePushes(draft, id) ==
  LET idx == JsIndexOf(draft.order, id)
  IN  IF idx <= 0 THEN draft
      ELSE [draft EXCEPT !.order = Push(SpliceOut(@, idx), id)]

MoveToTopRecipe(draft, id) ==
  LET idx == JsIndexOf(draft.order, id)
  IN  IF idx <= 0 THEN draft
      ELSE [draft EXCEPT !.order = Unshift(SpliceOut(@, idx), id)]

\* moveToBottom that puts the id one place before the end
MoveToBottomRecipeBeforeLast(draft, id) ==
  LET idx == JsIndexOf(draft.order, id)
  IN  IF idx = 0 - 1 THEN draft
      ELSE [draft EXCEPT !.order = SpliceIn(SpliceOut(@, idx), Len(@) - 2, id)]

MoveToBottomRecipe(draft, id) ==
  LET idx == JsIndexOf(draft.order, id)
  IN  IF idx = 0 - 1 \/ idx = Len(draft.order) - 1 THEN draft
      ELSE [draft EXCEPT !.order = Push(SpliceOut(@, idx), id)]

\* moveUp that puts the element at the top, as moveToTop does
MoveUpRecipeToTop(draft, id) ==
  LET idx == JsIndexOf(draft.order, id)
  IN  IF idx <= 0 THEN draft
      ELSE [draft EXCEPT !.order = Unshift(SpliceOut(@, idx), id)]

MoveUpRecipe(draft, id) ==
  LET idx == JsIndexOf(draft.order, id)
  IN  IF idx <= 0 THEN draft
      ELSE [draft EXCEPT !.order = SpliceIn(SpliceOut(@, idx), idx - 1, id)]

MoveDownRecipe(draft, id) ==
  LET idx == JsIndexOf(draft.order, id)
  IN  IF idx = 0 - 1 \/ idx = Len(draft.order) - 1 THEN draft
      ELSE [draft EXCEPT !.order = SpliceIn(SpliceOut(@, idx), idx + 1, id)]

(***************************************************************************)
(* The store of createReorderableListStoreSlice(initialOrder).  Every      *)
(* action calls set once, whatever its recipe then does (sets).            *)
(***************************************************************************)
ReorderableStore(initialOrder) == [order |-> initialOrder]

InitReorderable ==
  /\ store \in {ReorderableStore(o) : o \in Orders}
  /\ pc = "idle"
  /\ last = [op |-> "init"]

SetOrder(order) ==
  /\ pc = "idle"
  /\ store' = SetOrderRecipe(store, order)
  /\ last' = [op |-> "setOrder", arg |-> order, sets |-> 1,
              seen |-> Notified(store, SetOrderRecipe(store, order))]
  /\ UNCHANGED pc

Move(id, newIndex) ==
  /\ pc = "idle"
  /\ store' = MoveRecipe(store, id, newIndex)
  /\ last' = [op |-> "move", id |-> id, index |-> newIndex, pre |-> store, sets |-> 1,
              seen |-> Notified(store, MoveRecipe(store, id, newIndex))]
  /\ UNCHANGED pc

MoveToTop(id) ==
  /\ pc = "idle"
  /\ store' = MoveToTopRecipe(store, id)
  /\ last' = [op |-> "moveToTop", id |-> id, pre |-> store, sets |-> 1,
              seen |-> Notified(store, MoveToTopRecipe(store, id))]
  /\ UNCHANGED pc

MoveToBottom(id) ==
  /\ pc = "idle"
  /\ store' = MoveToBottomRecipe(store, id)
  /\ last' = [op |-> "moveToBottom", id |-> id, pre |-> store, sets |-> 1,
              seen |-> Notified(store, MoveToBottomRecipe(store, id))]
  /\ UNCHANGED pc

MoveUp(id) ==
  /\ pc = "idle"
  /\ store' = MoveUpRecipe(store, id)
  /\ last' = [op |-> "moveUp", id |-> id, pre |-> store, sets |-> 1,
              seen |-> Notified(store, MoveUpRecipe(store, id))]
  /\ UNCHANGED pc

MoveDown(id) ==
  /\ pc = "idle"
  /\ store' = MoveDownRecipe(store, id)
  /\ last' = [op |-> "moveDown", id |-> id, pre |-> store, sets |-> 1,
              seen |-> Notified(store, MoveDownRecipe(store, id))]
  /\ UNCHANGED pc

NextReorderable ==
  \/ \E order \in Orders : SetOrder(order)
  \/ \E id \in Ids, newIndex \in TargetIndices : Move(id, newIndex)
  \/ \E id \in Ids : MoveToTop(id)
  \/ \E id \in Ids : MoveToBottom(id)
  \/ \E id \in Ids : MoveUp(id)
  \/ \E id \in Ids : MoveDown(id)

SpecReorderable == InitReorderable /\ [][NextReorderable]_vars

(***************************************************************************)
(* Slice objects and their composition.  A slice creator returns an object *)
(* of state fields and action functions; a store is made by spreading      *)
(* several of them into one object, { ...a, ...b }.  An action function is *)
(* modelled by the slice that made it and its name.                        *)
(***************************************************************************)
Action(slice, name) == [tag |-> "action", slice |-> slice, name |-> name]

\* { ...a, ...b } that keeps a's value of a field both objects have
SpreadKeepsFirst(a, b) ==
  [f \in DOMAIN a \cup DOMAIN b |-> IF f \in DOMAIN a THEN a[f] ELSE b[f]]

Spread(a, b) ==
  [f \in DOMAIN a \cup DOMAIN b |-> IF f \in DOMAIN b THEN b[f] ELSE a[f]]

ListSlice(initialList) ==
  [data |-> initialList, setData |-> Action("list", "setData")]

MutableListSlice ==
  [added |-> <<>>, deleted |-> <<>>,
   add |-> Action("list-mutable", "add"),
   remove |-> Action("list-mutable", "remove")]

ReorderableListSlice(initialOrder) ==
  [order |-> initialOrder,
   setOrder |-> Action("list-reorderable", "setOrder"),
   move |-> Action("list-reorderable", "move"),
   moveToTop |-> Action("list-reorderable", "moveToTop"),
   moveToBottom |-> Action("list-reorderable", "moveToBottom"),
   moveUp |-> Action("list-reorderable", "moveUp"),
   moveDown |-> Action("list-reorderable", "moveDown")]

DataSlice(initialData) ==
  [data |-> initialData, setData |-> Action("data", "setData")]

MutableDataSlice(initialData) ==
  Spread(DataSlice(initialData),
         [updateData |-> Action("data-mutable", "updateData")])

RestorableDataSlice(initialData) ==
  Spread(DataSlice(initialData),
         [initialData |-> initialData, reset |-> Action("data-restorable", "reset")])

RefreshableDataSlice(initialData) ==
  Spread(RestorableDataSlice(initialData),
         [freshData |-> initialData, refresh |-> Action("data-refreshable", "refresh")])

(***************************************************************************)
(* Stores composed of the list slice, the mutable list slice and the       *)
(* reorderable list slice, and the image gallery store that spreads the    *)
(* data slice and its own fields after them.  Their identifiers are        *)
(* 1..MaxShared; they hold one item value, since which value a key holds   *)
(* plays no part in what one slice does to the fields of another.          *)
(***************************************************************************)
SharedIds == 1..MaxShared
SharedItems == {1}
SharedCollections ==
  {Record(f) : f \in UNION {[K -> SharedItems] : K \in SUBSET SharedIds}}
\* orders without repeated identifiers
SharedOrders ==
  {o \in UNION {[1..n -> SharedIds] : n \in 0..MaxShared} :
     \A i, j \in DOMAIN o : o[i] = o[j] => i = j}
SharedTargets == (0 - 1)..MaxShared

Images == {[tag |-> "image", item |-> i, entries |-> <<>>] : i \in Items}

ReorderableMutableListStore(initialList, initialOrder) ==
  Spread(Spread(ListSlice(initialList), MutableListSlice),
         ReorderableListSlice(initialOrder))

ImageGalleryStore ==
  Spread(Spread(ReorderableMutableListStore(Record(<<>>), <<>>), DataSlice(Null)),
         [viewMode |-> "grid", isUploading |-> FALSE,
          setViewMode |-> Action("gallery", "setViewMode"),
          setUploading |-> Action("gallery", "setUploading")])

InitComposedList ==
  /\ store \in {ReorderableMutableListStore(c, o) :
                  c \in SharedCollections, o \in SharedOrders}
  /\ pc = "idle"
  /\ last = [op |-> "init", threw |-> FALSE]

InitGallery ==
  /\ store = ImageGalleryStore
  /\ pc = "idle"
  /\ last = [op |-> "init", threw |-> FALSE]

\* store.setData is the function of the slice that was spread last
ComposedSetData(data) ==
  /\ pc = "idle"
  /\ store' = IF store.setData = Action("data", "setData")
              THEN SetDataRecipe(store, data)
              ELSE ListSetDataRecipe(store, data)
  /\ last' = [op |-> "setData", threw |-> FALSE]
  /\ UNCHANGED pc

ComposedAdd(id, element) ==
  /\ pc = "idle"
  /\ store' = AddCall(store, id, element).state
  /\ last' = [op |-> "add", id |-> id, element |-> element,
              threw |-> AddCall(store, id, element).threw]
  /\ UNCHANGED pc

ComposedRemove(id) ==
  /\ pc = "idle"
  /\ store' = RemoveCall(store, id).state
  /\ last' = [op |-> "remove", id |-> id, threw |-> RemoveCall(store, id).threw]
  /\ UNCHANGED pc

ComposedSetOrder(order) ==
  /\ pc = "idle"
  /\ store' = SetOrderRecipe(store, order)
  /\ last' = [op |-> "setOrder", threw |-> FALSE]
  /\ UNCHANGED pc

ComposedMove(id, newIndex) ==
  /\ pc = "idle"
  /\ store' = MoveRecipe(store, id, newIndex)
  /\ last' = [op |-> "move", id |-> id, threw |-> FALSE]
  /\ UNCHANGED pc

ComposedMoveToTop(id) ==
  /\ pc = "idle"
  /\ store' = MoveToTopRecipe(store, id)
  /\ last' = [op |-> "moveToTop", id |-> id, threw |-> FALSE]
  /\ UNCHANGED pc

ComposedMoveToBottom(id) ==
  /\ pc = "idle"
  /\ store' = MoveToBottomRecipe(store, id)
  /\ last' = [op |-> "moveToBottom", id |-> id, threw |-> FALSE]
  /\ UNCHANGED pc

ComposedMoveUp(id) ==
  /\ pc = "idle"
  /\ store' = MoveUpRecipe(store, id)
  /\ last' = [op |-> "moveUp", id |-> id, threw |-> FALSE]
  /\ UNCHANGED pc

ComposedMoveDown(id) ==
  /\ pc = "idle"
  /\ store' = MoveDownRecipe(store, id)
  /\ last' = [op |-> "moveDown", id |-> id, threw |-> FALSE]
  /\ UNCHANGED pc

\* set((state) => ({ viewMode: mode })): the partial state is merged
SetViewMode(mode) ==
  /\ pc = "idle"
  /\ store' = Spread(store, [viewMode |-> mode])
  /\ last' = [op |-> "setViewMode", threw |-> FALSE]
  /\ UNCHANGED pc

SetUploading(uploading) ==
  /\ pc = "idle"
  /\ store' = Spread(store, [isUploading |-> uploading])
  /\ last' = [op |-> "setUploading", threw |-> FALSE]
  /\ UNCHANGED pc

NextReordering ==
  \/ \E order \in SharedOrders : ComposedSetOrder(order)
  \/ \E id \in SharedIds, newIndex \in SharedTargets : ComposedMove(id, newIndex)
  \/ \E id \in SharedIds : ComposedMoveToTop(id)
  \/ \E id \in SharedIds : ComposedMoveToBottom(id)
  \/ \E id \in SharedIds : ComposedMoveUp(id)
  \/ \E id \in SharedIds : ComposedMoveDown(id)

NextComposedList ==
  \/ \E data \in SharedCollections \cup {Null} : ComposedSetData(data)
  \/ \E id \in SharedIds, element \in SharedItems : ComposedAdd(id, element)
  \/ \E id \in SharedIds : ComposedRemove(id)
  \/ NextReordering

NextGallery ==
  \/ \E data \in Images \cup {Null} : ComposedSetData(data)
  \/ \E id \in SharedIds, element \in Images : ComposedAdd(id, element)
  \/ \E id \in SharedIds : ComposedRemove(id)
  \/ NextReordering
  \/ \E mode \in {"grid", "list"} : SetViewMode(mode)
  \/ \E uploading \in BOOLEAN : SetUploading(uploading)

SpecComposedList == InitComposedList /\ [][NextComposedList]_vars

SpecGallery == InitGallery /\ [][NextGallery]_vars

(***************************************************************************)
(* The user slice and the bookmark slice of the examples, the store        *)
(* createUserAndBookmarkStore makes of them, and the React context that    *)
(* hands that store to components.                                         *)
(***************************************************************************)
BookmarkIds == 1..MaxBookmarkId
Urls == 1..MaxUrl
Bookmarks == {[tag |-> "bookmark", id |-> i, url |-> u] : i \in BookmarkIds, u \in Urls}
Users == {[tag |-> "user", id |-> i] : i \in SharedIds}

\* initial bookmark arrays; their ids are distinct
InitialBookmarks ==
  {bs \in UNION {[1..n -> Bookmarks] : n \in 0..MaxBookmarkId} :
     \A i, j \in DOMAIN bs : bs[i].id = bs[j].id => i = j}

\* initialBookmarks.reduce((acc, bookmark) => { acc[bookmark.id] = bookmark }, {})
BookmarksById(bs) ==
  Record([k \in {bs[i].id : i \in DOMAIN bs} |->
            bs[CHOOSE i \in DOMAIN bs :
                 bs[i].id = k /\ \A j \in DOMAIN bs : j > i => bs[j].id # k]])

\* initialBookmarks.reduce((acc, bookmark, index) => { acc[index] = bookmark.id }, {})
IdsByIndex(bs) == Record([i \in 0..(Len(bs) - 1) |-> bs[i + 1].id])

UserSlice(initialUser) ==
  [user |-> initialUser,
   setUser |-> Action("user", "setUser"),
   updateUser |-> Action("user", "updateUser")]

BookmarkSlice(initialBookmarks) ==
  [bookmarks |-> BookmarksById(initialBookmarks),
   orderedBookmarkIds |-> IdsByIndex(initialBookmarks),
   setBookmark |-> Action("bookmark", "setBookmark")]

UserAndBookmarkStore(initialUser, initialBookmarks) ==
  Spread(BookmarkSlice(initialBookmarks), UserSlice(initialUser))

SetBookmarkRecipe(draft, bookmark) ==
  [draft EXCEPT !.bookmarks = SetKey(@, bookmark.id, bookmark),
                !.orderedBookmarkIds = SetKey(@, Cardinality(Keys(@)), bookmark.id)]

InitBookmark ==
  /\ store \in {BookmarkSlice(bs) : bs \in InitialBookmarks}
  /\ pc = "idle"
  /\ last = [op |-> "init"]

SetBookmark(bookmark) ==
  /\ pc = "idle"
  /\ Cardinality(Keys(store.orderedBookmarkIds)) < MaxOrdered
  /\ store' = SetBookmarkRecipe(store, bookmark)
  /\ last' = [op |-> "setBookmark", arg |-> bookmark, pre |-> store]
  /\ UNCHANGED pc

NextBookmark == \E bookmark \in Bookmarks : SetBookmark(bookmark)

SpecBookmark == InitBookmark /\ [][NextBookmark]_vars

(***************************************************************************)
(* Composition of slice objects: a store object is built by spreading      *)
(* slice objects one after the other.                                      *)
(***************************************************************************)
SampleObject == [tag |-> "object", x |-> 0, y |-> 0]
SampleBookmark == [tag |-> "bookmark", id |-> 1, url |-> 1]

SliceObjects ==
  {ListSlice(Record(<<>>)), ListSlice(Record(<<1>>)), MutableListSlice,
   ReorderableListSlice(<<>>), ReorderableListSlice(<<1>>),
   DataSlice(Null), DataSlice(SampleObject),
   MutableDataSlice(Null), MutableDataSlice(SampleObject),
   RestorableDataSlice(Null), RestorableDataSlice(SampleObject),
   RefreshableDataSlice(Null), RefreshableDataSlice(SampleObject),
   UserSlice(Null), UserSlice([tag |-> "user", id |-> 1]),
   BookmarkSlice(<<>>), BookmarkSlice(<<SampleBookmark>>)}

InitCompose ==
  /\ store \in SliceObjects
  /\ pc = "idle"
  /\ last = [op |-> "init", count |-> 1]

SpreadSlice(slice) ==
  /\ pc = "idle"
  /\ last.count < MaxSlices
  /\ store' = Spread(store, slice)
  /\ last' = [op |-> "spread", slice |-> slice, pre |-> store, count |-> last.count + 1]
  /\ UNCHANGED pc

NextCompose == \E slice \in SliceObjects : SpreadSlice(slice)

SpecCompose == InitCompose /\ [][NextCompose]_vars

(***************************************************************************)
(* The store context.  In this specification `store` is the value of       *)
(* StoreContext where the calling component is rendered: null outside a    *)
(* provider, the provided store inside one.  A store is the state object   *)
(* behind getState().                                                      *)
(***************************************************************************)
StoreApi(state) == [tag |-> "store", state |-> state]

ProvidedStores ==
  {StoreApi(UserAndBookmarkStore(u, bs)) : u \in Users \cup {Null}, bs \in InitialBookmarks}

\* accessor that hands on whatever the context holds
UseUserAndBookmarksStoreCallUnchecked(context) ==
  [threw |-> FALSE, message |-> "", result |-> context]

UseUserAndBookmarksStoreCall(context) ==
  IF context = Null
  THEN [threw |-> TRUE,
        message |-> "useStoreContext must be used within a StoreProvider",
        result |-> Undefined]
  ELSE [threw |-> FALSE, message |-> "", result |-> context]

\* useUserAndBookmarksStaticStore: the accessor, then getState()
UseUserAndBookmarksStaticStoreCall(context) ==
  LET call == UseUserAndBookmarksStoreCall(context)
  IN  IF call.threw THEN call ELSE [call EXCEPT !.result = call.result.state]

\* what ExampleUserComponent renders is the user of the store's state
ExampleUserComponentCall(context) ==
  IF context = Null
  THEN [threw |-> TRUE, message |-> "Store not found", result |-> Undefined]
  ELSE [threw |-> FALSE, message |-> "", result |-> context.state.user]

InitContext ==
  /\ store \in ProvidedStores \cup {Null}
  /\ pc = "idle"
  /\ last = [op |-> "init"]

\* TopLevelUserComponent creates a store for its user and provides it
TopLevelUserComponent(user) ==
  /\ pc = "idle"
  /\ store' = StoreApi(UserAndBookmarkStore(user, <<>>))
  /\ last' = [op |-> "TopLevelUserComponent"]
  /\ UNCHANGED pc

UseUserAndBookmarksStore ==
  /\ pc = "idle"
  /\ last' = [op |-> "useUserAndBookmarksStore",
              call |-> UseUserAndBookmarksStoreCall(store)]
  /\ UNCHANGED <<store, pc>>

UseUserAndBookmarksStaticStore ==
  /\ pc = "idle"
  /\ last' = [op |-> "useUserAndBookmarksStaticStore",
              call |-> UseUserAndBookmarksStaticStoreCall(store)]
  /\ UNCHANGED <<store, pc>>

ExampleUserComponent ==
  /\ pc = "idle"
  /\ last' = [op |-> "ExampleUserComponent", call |-> ExampleUserComponentCall(store)]
  /\ UNCHANGED <<store, pc>>

NextContext ==
  \/ \E user \in Users : TopLevelUserComponent(user)
  \/ UseUserAndBookmarksStore
  \/ UseUserAndBookmarksStaticStore
  \/ ExampleUserComponent

SpecContext == InitContext /\ [][NextContext]_vars

(***************************************************************************)
(* Properties of the mutable list store.                                   *)
(***************************************************************************)
\* the position of e in arr (0 when absent)
IndexOf(arr, e) ==
  IF Includes(arr, e) THEN CHOOSE i \in 1..Len(arr) : arr[i] = e ELSE 0
\* the number of occurrences of e in arr
Count(arr, e) == Cardinality({i \in 1..Len(arr) : arr[i] = e})
\* new is old with every occurrence of id taken out and nothing else moved
SameOrderWithout(old, new, id) ==
  /\ ~Includes(new, id)
  /\ \A e \in Ids \ {id} : Count(new, e) = Count(old, e)
  /\ \A i, j \in 1..Len(old) :
       (i < j /\ old[i] # id /\ old[j] # id /\ old[i] # old[j])
         => IndexOf(new, old[i]) < IndexOf(new, old[j])

\* C1: no identifier is in both the added and the deleted tracking sequence.
NoIdBothAddedAndDeleted ==
  \A id \in Ids : ~(Includes(store.added, id) /\ Includes(store.deleted, id))

\* C1 witness: an add has just restored an id that had been removed, while
\* another id is still tracked as deleted.
WitnessRestoredByAdd ==
  /\ last.op = "add"
  /\ Includes(last.pre.deleted, last.id)
  /\ Includes(store.added, last.id)
  /\ Len(store.deleted) > 0

\* C2 (as claimed): add(id, item) immediately followed by remove(id) puts added
\* and deleted back to what they were before the add, and id is not a key.
AddThenRemoveIsNetZero ==
  [][(last.op = "add" /\ last'.op = "remove" /\ last'.id = last.id)
       => /\ store'.added = last.pre.added
          /\ store'.deleted = last.pre.deleted
          /\ last.id \notin Keys(store'.data)]_vars

\* C7: add(id, item) is one store update that sets collection[id] = item and
\* leaves the other entries alone, has id in added exactly once (appended only
\* when it was not there), and has id out of deleted; so it also holds when the
\* add follows a remove(id).
AddIsOneUpdateOfThreeFields ==
  last.op = "add" =>
    LET id == last.id
        pre == last.pre
    IN  /\ pc = "idle"
        /\ last.seen = <<store>>
        /\ Keys(store.data) = Keys(pre.data) \cup {id}
        /\ store.data.entries[id] = last.element
        /\ \A k \in Keys(pre.data) \ {id} : store.data.entries[k] = pre.data.entries[k]
        /\ Count(store.added, id) = 1
        /\ Includes(pre.added, id) => store.added = pre.added
        /\ ~Includes(pre.added, id) => store.added = pre.added \o <<id>>
        /\ ~Includes(store.deleted, id)
        /\ \A e \in Ids \ {id} : Count(store.deleted, e) = Count(pre.deleted, e)

\* C7 witness: add(id, item) right after the state a remove(id) leaves (id in
\* deleted, not a key, not in added) has ended with id restored.
WitnessAddAfterRemove ==
  /\ last.op = "add"
  /\ Includes(last.pre.deleted, last.id)
  /\ ~Includes(last.pre.added, last.id)
  /\ last.id \notin Keys(last.pre.data)
  /\ Includes(store.added, last.id)
  /\ ~Includes(store.deleted, last.id)
  /\ store.data.entries[last.id] = last.element

\* C8: remove(id) of an id that is not a key leaves the collection as it was
\* and still records the deletion: id ends in deleted (appended unless it was
\* there) and out of added.
RemoveOfMissingIdRecordsDeletion ==
  (last.op = "remove" /\ last.id \notin Keys(last.pre.data)) =>
    LET id == last.id
        pre == last.pre
    IN  /\ store.data = pre.data
        /\ Includes(pre.deleted, id) => store.deleted = pre.deleted
        /\ ~Includes(pre.deleted, id) => store.deleted = pre.deleted \o <<id>>
        /\ ~Includes(store.added, id)

\* C8 witness: an id that was neither a key nor tracked has been removed and is
\* now in deleted.
WitnessMissingIdRecorded ==
  /\ last.op = "remove"
  /\ last.id \notin Keys(last.pre.data)
  /\ ~Includes(last.pre.deleted, last.id)
  /\ Includes(store.deleted, last.id)

\* C9 (as claimed): remove(id) of an id that is not a key leaves the whole
\* state (collection, added, deleted) as it was.
RemoveOfMissingIdIsNoOp ==
  (last.op = "remove" /\ last.id \notin Keys(last.pre.data)) => store = last.pre

\* C9 (amended): remove(id) of an id that is not a key leaves the collection
\* as it was, and leaves the whole state as it was exactly when id was already
\* in deleted and not in added.
RemoveOfMissingIdNoOpIffTracked ==
  (last.op = "remove" /\ last.id \notin Keys(last.pre.data)) =>
    /\ store.data = last.pre.data
    /\ (store = last.pre) <=>
         (Includes(last.pre.deleted, last.id) /\ ~Includes(last.pre.added, last.id))

\* C9 witness: a second remove of an id already recorded as deleted changed
\* nothing.
WitnessRepeatedRemoveNoOp ==
  /\ last.op = "remove"
  /\ last.id \notin Keys(last.pre.data)
  /\ Includes(last.pre.deleted, last.id)
  /\ store = last.pre

AllThreeEqual(s, v) == s.freshData = v /\ s.initialData = v /\ s.data = v

\* C3 (as claimed): refresh(v) is one state transition: the store holds
\* either the state from before the call or freshData = initialData = data = v,
\* subscribers are notified at most once, and every snapshot they are given
\* has the three fields equal to v.
RefreshIsOneTransition ==
  last.op = "refresh" =>
    /\ store = last.pre \/ AllThreeEqual(store, last.arg)
    /\ Len(last.seen) <= 1
    /\ \A i \in 1..Len(last.seen) : AllThreeEqual(last.seen[i], last.arg)

\* C4: once refresh(v) has returned, freshData, initialData and data all
\* equal v, for every v (null too) and every state before.
RefreshSetsAllThree ==
  (last.op = "refresh" /\ pc = "idle") => AllThreeEqual(store, last.arg)

\* C4 witness: refresh(null) has returned from a state in which the three
\* fields held non-null values and data had been edited away from the baseline.
WitnessRefreshNull ==
  /\ last.op = "refresh"
  /\ pc = "idle"
  /\ last.arg = Null
  /\ last.pre.data # Null
  /\ last.pre.initialData # Null
  /\ last.pre.data # last.pre.initialData
  /\ AllThreeEqual(store, Null)

\* C5: setData and updateData leave the baseline initialData alone, and
\* reset() without an argument sets data to that baseline and keeps it, so
\* data equals initialData afterwards.
ResetRestoresBaseline ==
  /\ last.op \in {"setData", "updateData"} => store.initialData = last.pre.initialData
  /\ (last.op = "reset" /\ last.arg = Undefined) =>
       /\ store.data = last.pre.initialData
       /\ store.initialData = last.pre.initialData
       /\ store.data = store.initialData

\* C5 witness: reset() has restored an edited value to the baseline.
WitnessResetAfterEdit ==
  /\ last.op = "reset"
  /\ last.arg = Undefined
  /\ last.pre.data # last.pre.initialData
  /\ last.pre.initialData # Null
  /\ store.data = last.pre.initialData

\* C6: reset(v) with an argument, null included, sets initialData and data
\* both to v.
ResetWithArgumentSetsBoth ==
  (last.op = "reset" /\ last.arg # Undefined) =>
    /\ store.initialData = last.arg
    /\ store.data = last.arg

\* C6 witness: reset(null) has replaced a non-null baseline by null.
WitnessResetNull ==
  /\ last.op = "reset"
  /\ last.arg = Null
  /\ last.pre.initialData # Null
  /\ store.initialData = Null
  /\ store.data = Null

\* C11: in the data slice and in the list slice, data read right after
\* setData(v) is v, for every v (null too) and every value held before.
SetDataThenReadYieldsValue ==
  last.op = "setData" => store.data = last.arg

\* C11 witness: setData(null) on a list store that held a non-empty
\* collection; data now reads null.
WitnessListSetDataNull ==
  /\ last.op = "setData"
  /\ ~IsDataStore(store)
  /\ last.arg = Null
  /\ last.pre.data # Null
  /\ Keys(last.pre.data) # {}
  /\ store.data = Null

\* C12: updateData(m) while data is null leaves the whole state as it was and
\* never calls m.
UpdateDataOnNullIsNoOp ==
  (last.op = "updateData" /\ last.pre.data = Null) =>
    /\ store = last.pre
    /\ last.calls = 0
    /\ ~last.threw

\* C12 witness: updateData was called while data was null and the baseline
\* was not.
WitnessUpdateDataOnNull ==
  /\ last.op = "updateData"
  /\ last.pre.data = Null
  /\ last.pre.initialData # Null
  /\ store = last.pre

\* C13: updateData(m) while data = d is not null (m not throwing) makes data
\* what m makes of a copy of d (the field m assigns holds m's value, the other
\* field of d is as before) and changes no other field of the store.
UpdateDataChangesOnlyData ==
  (last.op = "updateData" /\ last.pre.data # Null /\ ~last.arg.throws) =>
    /\ last.calls = 1
    /\ store.data = ApplyUpdater(last.arg, last.pre.data)
    /\ last.arg.field = "x" => (store.data.x = last.arg.value /\ store.data.y = last.pre.data.y)
    /\ last.arg.field = "y" => (store.data.y = last.arg.value /\ store.data.x = last.pre.data.x)
    /\ DOMAIN store = DOMAIN last.pre
    /\ \A f \in DOMAIN store \ {"data"} : store[f] = last.pre[f]

\* C13 witness: updateData changed data while initialData and freshData held
\* the very object that data held before.
WitnessUpdateDataShared ==
  /\ last.op = "updateData"
  /\ ~last.arg.throws
  /\ last.pre.data # Null
  /\ last.pre.initialData = last.pre.data
  /\ last.pre.freshData = last.pre.data
  /\ store.data # last.pre.data
  /\ store.initialData = last.pre.data

\* C20: when the updater of updateData throws after some of its changes, the
\* state after the call is the state before it.
ThrowingUpdaterLeavesState ==
  (last.op = "updateData" /\ last.threw) => store = last.pre

\* C20 witness: an updater was called on non-null data, would have changed a
\* field, and threw.
WitnessUpdaterThrew ==
  /\ last.op = "updateData"
  /\ last.threw
  /\ last.calls = 1
  /\ last.pre.data # Null
  /\ ApplyUpdater(last.arg, last.pre.data) # last.pre.data
  /\ store = last.pre

(***************************************************************************)
(* Properties of the reorderable store.                                    *)
(***************************************************************************)
Relocations == {"move", "moveToTop", "moveToBottom", "moveUp", "moveDown"}
\* arr with the elements at indices i and j (from 0) exchanged
Exchanged(arr, i, j) ==
  [k \in 1..Len(arr) |-> IF k = i + 1 THEN arr[j + 1] ELSE IF k = j + 1 THEN arr[i + 1] ELSE arr[k]]

\* C14: move(id, t) on an order of length n that contains id puts id at index
\* t when 0 <= t <= n-1, at index n-1 when t > n-1 and at index 0 when t < 0,
\* and keeps the length; move(1, 2) on <<1, 2, 3>> gives <<2, 3, 1>>.
MovePutsIdAtClampedIndex ==
  (last.op = "move" /\ Includes(last.pre.order, last.id)) =>
    LET n == Len(last.pre.order)
        t == last.index
    IN  /\ Len(store.order) = n
        /\ (0 <= t /\ t <= n - 1) => store.order[t + 1] = last.id
        /\ t > n - 1 => store.order[n] = last.id
        /\ t < 0 => store.order[1] = last.id
        /\ (last.pre.order = <<1, 2, 3>> /\ last.id = 1 /\ t = 2) => store.order = <<2, 3, 1>>

\* C14 witness: move with a target index past the end has put an id that was
\* first at the last index.
WitnessMovePastEnd ==
  /\ last.op = "move"
  /\ Len(last.pre.order) = 3
  /\ last.pre.order[1] = last.id
  /\ last.index > 3
  /\ store.order[3] = last.id
  /\ store.order # last.pre.order

\* C15: every relocation keeps the length and the number of occurrences of
\* every identifier, and keeps the identifiers other than the moved one in
\* their order.
RelocationKeepsOthersInOrder ==
  last.op \in Relocations =>
    /\ Len(store.order) = Len(last.pre.order)
    /\ \A e \in Ids : Count(store.order, e) = Count(last.pre.order, e)
    /\ Filter(store.order, last.id) = Filter(last.pre.order, last.id)

\* C15 witness: a move has taken an id across two other identifiers.
WitnessMoveAcrossTwo ==
  /\ last.op = "move"
  /\ last.pre.order = <<1, 2, 3>>
  /\ last.id = 1
  /\ store.order = <<2, 3, 1>>

\* C16: when id is not in the order (the empty order included), each of the
\* five relocations leaves the order as it was.
RelocationOfAbsentIdKeepsOrder ==
  (last.op \in Relocations /\ ~Includes(last.pre.order, last.id)) =>
    store.order = last.pre.order

\* C16 witness: moveToTop of an id that is not in a non-empty order.
WitnessMoveToTopAbsent ==
  /\ last.op = "moveToTop"
  /\ Len(last.pre.order) >= 2
  /\ ~Includes(last.pre.order, last.id)
  /\ store.order = last.pre.order

\* C17: moveUp(id) with id at index i > 0 exchanges it with the element at
\* i-1, moveDown(id) with id at index i < n-1 exchanges it with the element at
\* i+1; moveUp at index 0 and moveDown at index n-1 leave the order as it was.
MoveUpDownSwapWithNeighbour ==
  LET i == JsIndexOf(last.pre.order, last.id)
      n == Len(last.pre.order)
  IN  /\ (last.op = "moveUp" /\ i > 0) => store.order = Exchanged(last.pre.order, i, i - 1)
      /\ (last.op = "moveUp" /\ i = 0) => store.order = last.pre.order
      /\ (last.op = "moveDown" /\ i >= 0 /\ i < n - 1) =>
           store.order = Exchanged(last.pre.order, i, i + 1)
      /\ (last.op = "moveDown" /\ i = n - 1) => store.order = last.pre.order

\* C17 witness: moveUp of the id at the last index of a three-element order.
WitnessMoveUpFromEnd ==
  /\ last.op = "moveUp"
  /\ last.pre.order = <<1, 2, 3>>
  /\ last.id = 3
  /\ store.order = <<1, 3, 2>>

\* C18: moveToTop(id) of an id in the order puts it at index 0, and moveToTop
\* of the id at index 0 changes nothing, so a second moveToTop(id) right after
\* the first leaves the order of the first.
MoveToTopIsIdempotent ==
  last.op = "moveToTop" =>
    /\ Includes(last.pre.order, last.id) => store.order[1] = last.id
    /\ (Len(last.pre.order) > 0 /\ last.pre.order[1] = last.id) => store = last.pre
    /\ MoveToTopRecipe(store, last.id) = store

\* C18 witness: moveToTop has brought an id from the last index to the top.
WitnessMoveToTopFromEnd ==
  /\ last.op = "moveToTop"
  /\ last.pre.order = <<1, 2, 3>>
  /\ last.id = 3
  /\ store.order = <<3, 1, 2>>

\* C19 (as claimed): moveUp of the first element and moveDown of the last
\* element do not call the store's set at all.
BoundaryMoveCallsNoSet ==
  ( \/ (last.op = "moveUp" /\ JsIndexOf(last.pre.order, last.id) = 0)
    \/ (last.op = "moveDown" /\ Len(last.pre.order) > 0
          /\ JsIndexOf(last.pre.order, last.id) = Len(last.pre.order) - 1) )
    => last.sets = 0

(***************************************************************************)
(* Further properties of the data store, the mutable list store and the    *)
(* reorderable store.                                                      *)
(***************************************************************************)
\* C22: setData and updateData change data only: initialData and freshData
\* are what they were before the call.  So after refresh(v), which leaves
\* freshData = initialData = v, every run of setData and updateData calls
\* keeps freshData = v and initialData = v whatever data becomes.
EditsKeepBaselineAndFresh ==
  last.op \in {"setData", "updateData"} =>
    /\ store.initialData = last.pre.initialData
    /\ store.freshData = last.pre.freshData
    /\ AllThreeEqual(last.pre, last.pre.freshData) =>
         (store.freshData = last.pre.data /\ store.initialData = last.pre.data)

\* C22 witness: setData on a store whose three fields held the same non-null
\* value, as refresh leaves them; data differs now, the other two do not.
WitnessEditAfterRefresh ==
  /\ last.op = "setData"
  /\ IsDataStore(store)
  /\ last.pre.freshData # Null
  /\ AllThreeEqual(last.pre, last.pre.freshData)
  /\ store.data # store.freshData
  /\ store.freshData = last.pre.freshData
  /\ store.initialData = last.pre.freshData

Elements(arr) == {arr[i] : i \in 1..Len(arr)}

\* C27: from empty added and deleted and any initial collection, after every
\* run of add and remove calls each id in added is a key of the collection and
\* no id in deleted is one; when the initial collection was empty, the keys of
\* the collection are exactly the ids in added.
TrackingMatchesCollection ==
  /\ \A id \in Elements(store.added) : id \in Keys(store.data)
  /\ \A id \in Elements(store.deleted) : id \notin Keys(store.data)
  /\ last.fromEmpty => Keys(store.data) = Elements(store.added)

\* C27 witness: a store created empty, after adds and a remove: two ids added
\* and present, one deleted and absent.
WitnessAddedAreTheKeys ==
  /\ last.fromEmpty
  /\ last.op = "remove"
  /\ Len(store.added) = 2
  /\ Len(store.deleted) = 1
  /\ Keys(store.data) = Elements(store.added)

\* C28: from empty added and deleted, after every run of add and remove calls
\* no id occurs more than once in added, nor in deleted.
NoIdTrackedTwice ==
  \A id \in Ids : Count(store.added, id) <= 1 /\ Count(store.deleted, id) <= 1

\* C28 witness: add of an id that was in added already; it is there once.
WitnessAddedAgain ==
  /\ last.op = "add"
  /\ Includes(last.pre.added, last.id)
  /\ last.pre.data.entries[last.id] # last.element
  /\ Count(store.added, last.id) = 1

\* C29: each shortcut leaves the order that move leaves for the matching
\* target index: moveToTop(id) as move(id, 0), moveToBottom(id) as
\* move(id, n - 1), moveUp(id) as move(id, i - 1) and moveDown(id) as
\* move(id, i + 1), n the length of the order and i the index of id before the
\* call (-1 when id is absent).
ShortcutsAgreeWithMove ==
  /\ last.op = "moveToTop" => store = MoveRecipe(last.pre, last.id, 0)
  /\ last.op = "moveToBottom" =>
       store = MoveRecipe(last.pre, last.id, Len(last.pre.order) - 1)
  /\ last.op = "moveUp" =>
       store = MoveRecipe(last.pre, last.id, JsIndexOf(last.pre.order, last.id) - 1)
  /\ last.op = "moveDown" =>
       store = MoveRecipe(last.pre, last.id, JsIndexOf(last.pre.order, last.id) + 1)

\* C29 witness: moveDown of the id at the last index of an order of three
\* distinct ids; the target index is past the end.
WitnessMoveDownAtEnd ==
  /\ last.op = "moveDown"
  /\ Len(last.pre.order) = 3
  /\ Cardinality(Elements(last.pre.order)) = 3
  /\ JsIndexOf(last.pre.order, last.id) = 2
  /\ store = last.pre

(***************************************************************************)
(* Properties of the stores composed of several slices.                    *)
(***************************************************************************)
\* C21 (as claimed): no slice action raises an error, in any reachable state
\* (a list collection that setData(null) made null included) and for any
\* argument.
NoActionRaises == ~last.threw

OrderOps == {"setOrder", "move", "moveToTop", "moveToBottom", "moveUp", "moveDown"}

\* C23: setOrder and every move leave the collection, added and deleted as
\* they were, and setData, add and remove leave order as it was.
OrderAndCollectionIndependent ==
  [][/\ last'.op \in OrderOps =>
          /\ store'.data = store.data
          /\ store'.added = store.added
          /\ store'.deleted = store.deleted
     /\ last'.op \in {"setData", "add", "remove"} => store'.order = store.order]_vars

\* C23 witness: after remove(1), id 1 is still in order but not a key of the
\* collection, and id 2 is a key of the collection but not in order.
WitnessOrderAndKeysDiffer ==
  /\ last.op = "remove"
  /\ last.id = 1
  /\ ~last.threw
  /\ Includes(store.order, 1)
  /\ 1 \notin Keys(store.data)
  /\ 2 \in Keys(store.data)
  /\ ~Includes(store.order, 2)

\* C26 (as claimed): in the image gallery store the image collection and the
\* selected image are held apart: add(id, image) puts the image in the
\* collection under id, and setData(image), which selects an image, leaves the
\* collection as it was.
GalleryHoldsCollectionAndSelection ==
  [][/\ last'.op = "add" =>
          /\ ~last'.threw
          /\ store'.data # Null
          /\ store'.data.tag = "record"
          /\ last'.id \in Keys(store'.data)
          /\ store'.data.entries[last'.id] = last'.element
     /\ last'.op = "setData" => store'.data = store.data]_vars

\* C24: spreading a slice object into a store object raises no error and
\* gives an object with the fields of both; a field both define holds the
\* value of the slice spread later, every other field the value it had.
LaterSliceWins ==
  last.op = "spread" =>
    /\ DOMAIN store = DOMAIN last.pre \cup DOMAIN last.slice
    /\ \A f \in DOMAIN last.slice : store[f] = last.slice[f]
    /\ \A f \in DOMAIN last.pre \ DOMAIN last.slice : store[f] = last.pre[f]

\* C24 witness: the data slice was spread over a list slice and a mutable
\* list slice; data and setData are the data slice's, added is still there.
WitnessDataSliceOverListSlice ==
  /\ last.op = "spread"
  /\ last.slice = DataSlice(Null)
  /\ {"data", "setData", "added"} \subseteq DOMAIN last.pre
  /\ last.pre.setData = Action("list", "setData")
  /\ last.pre.data # Null
  /\ store.data = Null
  /\ store.setData = Action("data", "setData")
  /\ store.added = <<>>

\* C25: the context accessor called where the context value is null raises an
\* error with a message that says what is missing; called where a store is
\* provided it returns that store.  ExampleUserComponent reads the context the
\* same way.
ContextAccessorChecksProvider ==
  /\ last.op = "useUserAndBookmarksStore" =>
       IF store = Null
       THEN /\ last.call.threw
            /\ last.call.message = "useStoreContext must be used within a StoreProvider"
       ELSE /\ ~last.call.threw
            /\ last.call.result = store
  /\ last.op = "ExampleUserComponent" =>
       IF store = Null
       THEN last.call.threw /\ last.call.message = "Store not found"
       ELSE ~last.call.threw /\ last.call.result = store.state.user

\* C25 witness: the accessor was called outside a provider and threw.
WitnessAccessorOutsideProvider ==
  /\ last.op = "useUserAndBookmarksStore"
  /\ store = Null
  /\ last.call.threw
  /\ last.call.result = Undefined

\* C30 (as claimed): orderedBookmarkIds has the keys 0..n-1 and lists each id
\* stored in bookmarks exactly once, so that n is the number of entries of
\* bookmarks, after every run of setBookmark calls.
OrderedIdsListEachBookmarkOnce ==
  LET ordered == store.orderedBookmarkIds
      n == Cardinality(Keys(ordered))
  IN  /\ Keys(ordered) = 0..(n - 1)
      /\ \A id \in Keys(store.bookmarks) :
           Cardinality({i \in Keys(ordered) : ordered.entries[i] = id}) = 1
      /\ \A i \in Keys(ordered) : ordered.entries[i] \in Keys(store.bookmarks)
      /\ n = Cardinality(Keys(store.bookmarks))
====
